---- MODULE Spec2Model ----
(***************************************************************************)
(* LiveUpdate (src/update.cpp): LiveUpdate::begin, LiveUpdate::store,      *)
(* LiveUpdate::stored_data_length, LiveUpdate::restore_environment and     *)
(* update_store_data, as a state machine.                                  *)
(*                                                                         *)
(* Numbers that come out of the blob are kept as little-endian byte        *)
(* sequences of the width the C++ type has (uint16_t: 2, uint32_t/int: 4,  *)
(* uint64_t: 8), so that wrap-around, truncation and sign change are what  *)
(* the machine does.  Addresses of the host environment (kernel, heap,     *)
(* physical memory, the storage location) are below 2^31 and are plain     *)
(* integers.                                                               *)
(***************************************************************************)
EXTENDS Integers, Sequences, FiniteSets, TLC

VARIABLES
  config,            \* build configuration: PLATFORM_x86_solo5 / ARCH_i686 / ARCH_x86_64
  interrupts,        \* CPU interrupt flag: TRUE = interrupts enabled
  pc,                \* position of the control thread
  op,                \* API call in progress: "none", "begin", "store"
  location,          \* argument: storage location (the one area this run of the program uses)
  blob,              \* argument: the blob
  storage_callback,  \* argument: the state-dump callback
  binary,            \* local: offset of `binary` from blob.data() (0 or SECT_SIZE)
  expected_total,    \* local: size_t
  start_offset,      \* local: uintptr_t
  bin_data,          \* local: const char*, as an offset from blob.data()
  bin_len,           \* local: int
  phys_base,         \* local: char*
  sr_data,           \* local: void* returned by __os_store_soft_reset
  region,            \* physical memory at the storage location
  trace,             \* side effects of the call in progress, in order
  reads,             \* extents of the blob read by the call in progress
  printed,           \* the EXPECTED value written to stderr
  handoff,           \* the arguments the handoff primitive was invoked with
  result,            \* how the call ended, as seen by its caller
  previous,          \* history: the call that returned just before stored_data_length was called
  region_at_call,    \* history: the memory at the location when the call in progress began
  LIVEUPDATE_PERFORM_SANITY_CHECKS   \* the global toggle

vars == <<config, interrupts, pc, op, location, blob, storage_callback, binary,
          expected_total, start_offset, bin_data, bin_len, phys_base, sr_data,
          region, trace, reads, printed, handoff, result, previous, region_at_call,
          LIVEUPDATE_PERFORM_SANITY_CHECKS>>

-----------------------------------------------------------------------------
(* Fixed-width machine numbers: little-endian sequences of bytes.          *)

Byte == 0..255

P256 == <<1, 256, 65536, 16777216>>

\* n (0 <= n < 2^31) as a number of w bytes
Enc(n, w) == [i \in 1..w |-> IF i <= 4 THEN (n \div P256[i]) % 256 ELSE 0]

\* conversion to an unsigned type of w bytes: truncation or zero extension
ZExt(a, w) == [i \in 1..w |-> IF i <= Len(a) THEN a[i] ELSE 0]

\* conversion of a signed number to a type of w bytes: sign extension
SExt(a, w) ==
  [i \in 1..w |-> IF i <= Len(a) THEN a[i]
                  ELSE IF a[Len(a)] >= 128 THEN 255 ELSE 0]

RECURSIVE AddC(_, _, _, _)
AddC(a, b, i, c) ==
  IF i > Len(a) THEN <<>>
  ELSE LET s == a[i] + b[i] + c
       IN  <<s % 256>> \o AddC(a, b, i + 1, s \div 256)

\* a + b modulo 2^(8 * Len(a)), for Len(a) = Len(b)
Add(a, b) == AddC(a, b, 1, 0)

\* a < b, unsigned, for Len(a) = Len(b)
LtU(a, b) ==
  \E i \in 1..Len(a) : a[i] < b[i] /\ \A j \in (i+1)..Len(a) : a[j] = b[j]

\* a <= b as signed (two's complement) numbers, for Len(a) = Len(b)
LeS(a, b) ==
  LET na == a[Len(a)] >= 128
      nb == b[Len(b)] >= 128
  IN  IF na # nb THEN na ELSE ~LtU(b, a)

IsZero(a) == \A i \in 1..Len(a) : a[i] = 0

\* a number below 2^24 as an integer
Fits(a) == \A i \in 4..Len(a) : a[i] = 0
Val(a) == a[1] + 256 * a[2] + 65536 * a[3]

\* uint16_t * uint16_t after integer promotion: the 32 bits of the product
Mul16(a, b) ==
  LET t0 == a[1] * b[1]
      t1 == a[1] * b[2] + a[2] * b[1] + (t0 \div 256)
      t2 == a[2] * b[2] + (t1 \div 256)
  IN  <<t0 % 256, t1 % 256, t2 % 256, t2 \div 256>>

-----------------------------------------------------------------------------
(* Build configurations (update.cpp:169, 189, 193, 198).                   *)

Configs ==
  { [platform |-> "solo5",   arch |-> "x86_64"],
    [platform |-> "hotswap", arch |-> "i686"],
    [platform |-> "hotswap", arch |-> "x86_64"] }

\* sizeof(size_t) = sizeof(uintptr_t) = sizeof(void*)
PtrBytes(c) == IF c.arch = "i686" THEN 4 ELSE 8

-----------------------------------------------------------------------------
(* The ELF structures read by begin: <<offset, width>> of each field.      *)

SECT_SIZE == 512
ELF_MINIMUM == 164

ELFMAG == <<127, 69, 76, 70>>   \* 0x7F 'E' 'L' 'F'
EI_CLASS == 4
ELFCLASS32 == 1
ELFCLASS64 == 2

Elf32_Ehdr ==
  [e_entry |-> <<24, 4>>, e_phoff |-> <<28, 4>>, e_shoff |-> <<32, 4>>,
   e_shentsize |-> <<46, 2>>, e_shnum |-> <<48, 2>>]
Elf64_Ehdr ==
  [e_entry |-> <<24, 8>>, e_phoff |-> <<32, 8>>, e_shoff |-> <<40, 8>>,
   e_shentsize |-> <<58, 2>>, e_shnum |-> <<60, 2>>]
Elf32_Phdr ==
  [p_offset |-> <<4, 4>>, p_paddr |-> <<12, 4>>, p_filesz |-> <<16, 4>>]
Elf64_Phdr ==
  [p_offset |-> <<8, 8>>, p_paddr |-> <<24, 8>>, p_filesz |-> <<32, 8>>]

-----------------------------------------------------------------------------
(* Blobs.  A blob is the bytes blob.data()[0 .. blob.size()) (`data`) and  *)
(* the bytes that happen to follow them in memory (`tail`); memory past    *)
(* the tail reads as zero.                                                 *)

Zeros(n) == <<>> \o [i \in 1..n |-> 0]

\* the bytes of an image file whose header fields are the bytes in h: each field
\* at its offset, the loadable segment's bytes non-zero, zero elsewhere
Image(h) ==
  LET E  == IF h.class = ELFCLASS32 THEN Elf32_Ehdr ELSE Elf64_Ehdr
      P  == IF h.class = ELFCLASS32 THEN Elf32_Phdr ELSE Elf64_Phdr
      put == << <<0, ELFMAG \o <<h.ident_class>> >>,
                <<E.e_entry[1], h.e_entry>>,
                <<E.e_phoff[1], h.e_phoff>>,
                <<E.e_shoff[1], h.e_shoff>>,
                <<E.e_shentsize[1], h.e_shentsize>>,
                <<E.e_shnum[1], h.e_shnum>>,
                <<h.phdr_at + P.p_offset[1], h.p_offset>>,
                <<h.phdr_at + P.p_paddr[1], h.p_paddr>>,
                <<h.phdr_at + P.p_filesz[1], h.p_filesz>> >>
      at(i) == {k \in 1..Len(put) : i > put[k][1] /\ i <= put[k][1] + Len(put[k][2])}
  IN  <<>> \o
      [i \in 1..h.len |->
         IF i > h.seg_at /\ i <= h.seg_at + h.seg_len THEN 1 + ((i - h.seg_at) % 200)
         ELSE IF at(i) = {} THEN 0
         ELSE LET k == CHOOSE k \in at(i) : TRUE IN put[k][2][i - put[k][1]]]

\* a well-formed 32-bit image: header 52, program header 32, segment 65, one section header 40
Good32 ==
  [class |-> ELFCLASS32, ident_class |-> ELFCLASS32, len |-> 189,
   e_entry |-> <<64, 0, 32, 0>>, e_phoff |-> Enc(52, 4), e_shoff |-> Enc(149, 4),
   e_shentsize |-> Enc(40, 2), e_shnum |-> Enc(1, 2),
   phdr_at |-> 52, p_offset |-> Enc(84, 4), p_paddr |-> <<0, 0, 32, 0>>,
   p_filesz |-> Enc(65, 4), seg_at |-> 84, seg_len |-> 65]

\* a well-formed 64-bit image: header 64, program header 56, segment 65, one section header 64
Good64 ==
  [class |-> ELFCLASS64, ident_class |-> ELFCLASS64, len |-> 249,
   e_entry |-> <<64, 0, 32, 0, 0, 0, 0, 0>>, e_phoff |-> Enc(64, 8), e_shoff |-> Enc(185, 8),
   e_shentsize |-> Enc(64, 2), e_shnum |-> Enc(1, 2),
   phdr_at |-> 64, p_offset |-> Enc(120, 8), p_paddr |-> <<0, 0, 32, 0, 0, 0, 0, 0>>,
   p_filesz |-> Enc(65, 8), seg_at |-> 120, seg_len |-> 65]

Whole(bytes) == [data |-> bytes, tail |-> <<>>]
\* the first n bytes of an image, the rest of it still behind them in memory
Cut(bytes, n) == [data |-> SubSeq(bytes, 1, n), tail |-> SubSeq(bytes, n + 1, Len(bytes))]
\* a bootloader sector of zeros, then the image
Shifted(bytes) == Zeros(SECT_SIZE) \o bytes

\* the blobs begin is called with
Blob(k) ==
  CASE k = 1  -> Whole(Image(Good32))
    [] k = 2  -> Whole(Image(Good64))
    [] k = 3  -> Whole(Shifted(Image(Good32)))
    [] k = 4  -> Whole(Shifted(Image(Good64)))
    [] k = 5  -> Cut(Image(Good32), 170)                     \* truncated
    [] k = 6  -> Cut(Image(Good32), 0)                       \* empty, an image behind it
    [] k = 7  -> Whole(<<>>)                                 \* empty
    [] k = 8  -> Whole(Zeros(600))                           \* no header
    [] k = 9  -> Cut(Image(Good32), 3)                       \* ends inside the magic
    [] k = 10 -> Whole(Image([Good32 EXCEPT !.p_filesz = Enc(64, 4)]))   \* segment too short
    [] k = 11 -> Whole(Image([Good64 EXCEPT !.p_paddr = Enc(0, 8)]))     \* null physical base
    [] k = 12 -> Whole(Image([Good32 EXCEPT !.e_shoff = <<226, 255, 255, 255>>,
                                            !.e_shnum = Enc(5, 2)]))     \* sum wraps at 2^32
    [] k = 13 -> Whole(Image([Good64 EXCEPT !.e_shoff = <<185, 0, 0, 0, 1, 0, 0, 0>>]))  \* sum above 2^32
    [] k = 14 -> Whole(Image([Good32 EXCEPT !.p_filesz = <<65, 0, 0, 128>>]))            \* size above 2^31
    [] k = 15 -> Whole(Image([Good64 EXCEPT !.p_filesz = <<65, 0, 0, 0, 1, 0, 0, 0>>]))  \* size above 2^32
    [] k = 16 -> Whole(Image([Good32 EXCEPT !.e_phoff = Enc(1000, 4)]))  \* program header outside
    [] k = 17 -> Whole(Image([Good32 EXCEPT !.p_offset = Enc(150, 4),
                                            !.p_filesz = Enc(100, 4)]))  \* segment outside
    [] k = 18 -> Whole(Image([Good32 EXCEPT !.e_shoff = Enc(60, 4)]))    \* below ELF_MINIMUM
    [] k = 19 -> Cut(Shifted(Image(Good32)), SECT_SIZE + 100)            \* shifted and truncated
    [] k = 20 -> Whole(Image([Good64 EXCEPT !.ident_class = 0]))         \* ELFCLASSNONE

BlobIds == 1..20

NoBlob == Whole(<<>>)

\* blob.size()
size(b) == Len(b.data)

\* the byte at blob.data()[off], inside the blob or not
ByteAt(b, off) ==
  IF off < Len(b.data) THEN b.data[off + 1]
  ELSE IF off < Len(b.data) + Len(b.tail) THEN b.tail[off - Len(b.data) + 1]
  ELSE 0

\* the w bytes at blob.data()[off ..], off a pointer-sized number
Rd(b, off, w) ==
  [i \in 1..w |-> IF Fits(off) THEN ByteAt(b, Val(off) + i - 1) ELSE 0]

-----------------------------------------------------------------------------
(* The host environment: kernel image, heap, physical memory.              *)

_ELF_START_ == 1048576      \* 0x100000
_end        == 1572864      \* 0x180000
heap_begin  == 1576960      \* 0x181000
heap_end    == 2097152      \* 0x200000
heap_max    == 134217728    \* OS::heap_max(): 0x8000000
blob_data   == 1638400      \* blob.data(): 0x190000, a heap allocation
HOTSWAP_AREA == 32768       \* 0x8000
hotswap_size == 256         \* &__hotswap_length - (char*) &hotswap, hotswap64_len

\* candidate storage locations: each bound of the region checks, and its neighbours
Locations ==
  { 511, 512, HOTSWAP_AREA,
    _ELF_START_ - 1, _ELF_START_, _end - 1, _end,
    heap_begin, heap_end - 1, heap_end,
    heap_max - 65536 - 1, heap_max - 65536, heap_max - 1, heap_max }

\* RegionCheck without the 64 KiB margin check of update.cpp:85-87
RegionCheck_NoMargin(storage_area) ==
  IF storage_area < 512 THEN "null pointer"
  ELSE IF storage_area >= _ELF_START_ /\ storage_area < _end THEN "inside kernel area"
  ELSE IF storage_area >= heap_begin /\ storage_area < heap_end THEN "inside the heap area"
  ELSE IF storage_area >= heap_max THEN "outside physical memory"
  ELSE "ok"

\* update.cpp:72-87; "ok" when no check throws
RegionCheck(storage_area) ==
  IF storage_area < 512 THEN "null pointer"
  ELSE IF storage_area >= _ELF_START_ /\ storage_area < _end THEN "inside kernel area"
  ELSE IF storage_area >= heap_begin /\ storage_area < heap_end THEN "inside the heap area"
  ELSE IF storage_area >= heap_max THEN "outside physical memory"
  ELSE IF storage_area >= heap_max - 65536 THEN "needs at least 64kb memory"
  ELSE "ok"

-----------------------------------------------------------------------------
(* The storage log at the location (storage.hpp, not part of update.cpp).  *)

MaxEntries == 1

LogLayout == [header |-> 8, entry |-> 12, trailer |-> 4]

\* memory that never held a log
Garbage == [marker |-> FALSE, length |-> 0, entries |-> <<>>, trailer |-> -1]

\* memory that holds the machine code of the hotswap routine
HotswapCode == [marker |-> FALSE, length |-> 0, entries |-> <<>>, trailer |-> -2]

\* new (location) storage_header()
storage_header == [marker |-> TRUE, length |-> 0, entries |-> <<>>, trailer |-> -1]

add_int(hdr, id, value) ==
  [hdr EXCEPT !.entries = Append(@, [type |-> "int", id |-> id, value |-> value]),
              !.length = @ + LogLayout.entry]

finalize(hdr) == [hdr EXCEPT !.trailer = hdr.length]

validate(hdr) == hdr.marker /\ hdr.trailer = hdr.length

total_bytes(hdr) == LogLayout.header + hdr.length + LogLayout.trailer

\* storage_func values: nullptr, or a function that appends n Int entries
nullptr_func == [null |-> TRUE, n |-> 0]
Callbacks == {nullptr_func} \cup {[null |-> FALSE, n |-> n] : n \in 0..MaxEntries}

RECURSIVE RunCallback(_, _)
RunCallback(hdr, n) ==
  IF n = 0 THEN hdr ELSE add_int(RunCallback(hdr, n - 1), n, 42)

-----------------------------------------------------------------------------
(* Locals of begin, before they are assigned.                              *)

NoNum == <<>>
NoResult == [kind |-> "none", what |-> "", value |-> 0]
NoHandoff == [kind |-> "none"]
NoPrevious == [op |-> "none", result |-> NoResult, region |-> Garbage]

Init ==
  /\ config \in Configs
  /\ location \in Locations
  /\ interrupts = TRUE
  /\ pc = "idle"
  /\ op = "none"
  /\ blob = NoBlob
  /\ storage_callback = nullptr_func
  /\ binary = 0
  /\ expected_total = NoNum
  /\ start_offset = NoNum
  /\ bin_data = NoNum
  /\ bin_len = NoNum
  /\ phys_base = NoNum
  /\ sr_data = "nullptr"
  /\ region = Garbage
  /\ trace = <<>>
  /\ reads = {}
  /\ printed = NoNum
  /\ handoff = NoHandoff
  /\ result = NoResult
  /\ previous = NoPrevious
  /\ region_at_call = Garbage
  /\ LIVEUPDATE_PERFORM_SANITY_CHECKS = TRUE

locals == <<binary, expected_total, start_offset, bin_data, bin_len, phys_base, sr_data>>
args == <<blob, storage_callback>>
fixed == <<config, location, LIVEUPDATE_PERFORM_SANITY_CHECKS>>
history == <<previous, region_at_call>>

\* throw std::runtime_error(what): the exception reaches the caller of the API call
Throw(kind, what) ==
  /\ pc' = "done"
  /\ result' = [kind |-> kind, what |-> what, value |-> 0]

\* begin without the "cli" of update.cpp:60
Begin_NoCli(k, cb) ==
  /\ pc = "idle"
  /\ op' = "begin"
  /\ blob' = Blob(k)
  /\ storage_callback' = cb
  /\ trace' = <<"cli">>
  /\ pc' = "validate"
  /\ region_at_call' = region
  /\ UNCHANGED <<fixed, previous, locals, interrupts, region, reads, printed, handoff, result>>

\* LiveUpdate::begin entered: "cli" is its first statement
Begin(k, cb) ==
  /\ pc = "idle"
  /\ op' = "begin"
  /\ blob' = Blob(k)
  /\ storage_callback' = cb
  /\ interrupts' = FALSE
  /\ trace' = <<"cli">>
  /\ pc' = "validate"
  /\ region_at_call' = region
  /\ UNCHANGED <<fixed, previous, locals, region, reads, printed, handoff, result>>

\* begin constructing the storage header (update.cpp:236) as soon as the location
\* is accepted, before the image is looked at
ValidateRegion_Creates ==
  /\ pc = "validate"
  /\ IF RegionCheck(location) # "ok"
     THEN /\ Throw("InvalidRegion", RegionCheck(location))
          /\ UNCHANGED <<trace, region>>
     ELSE /\ pc' = "search"
          /\ trace' = Append(trace, "validated")
          /\ region' = storage_header
          /\ UNCHANGED result
  /\ UNCHANGED <<fixed, history, args, locals, op, interrupts, reads, printed, handoff>>

\* update.cpp:72-87
ValidateRegion ==
  /\ pc = "validate"
  /\ IF RegionCheck(location) # "ok"
     THEN /\ Throw("InvalidRegion", RegionCheck(location))
          /\ UNCHANGED trace
     ELSE /\ pc' = "search"
          /\ trace' = Append(trace, "validated")
          /\ UNCHANGED result
  /\ UNCHANGED <<fixed, history, args, locals, op, interrupts, region, reads, printed, handoff>>

\* an extent of memory read through blob.data(): n bytes at offset off
Extent(off, n) == [off |-> ZExt(off, 8), n |-> n]

\* validate_header (update.cpp:45-52): the e_ident bytes it examines, left to right
MagicLen(b, base) ==
  IF \E i \in 1..4 : ByteAt(b, base + i - 1) # ELFMAG[i]
  THEN CHOOSE i \in 1..4 : /\ ByteAt(b, base + i - 1) # ELFMAG[i]
                           /\ \A j \in 1..(i-1) : ByteAt(b, base + j - 1) = ELFMAG[j]
  ELSE 4
validate_header(b, base) == \A i \in 1..4 : ByteAt(b, base + i - 1) = ELFMAG[i]

\* update.cpp:89-105
SearchHeader ==
  /\ pc = "search"
  /\ LET r0 == Extent(Enc(0, 4), MagicLen(blob, 0))
         r1 == Extent(Enc(SECT_SIZE, 4), MagicLen(blob, SECT_SIZE))
     IN  IF validate_header(blob, 0)
         THEN /\ binary' = 0
              /\ reads' = reads \cup {r0}
              /\ pc' = "parse"
              /\ trace' = Append(trace, "located")
              /\ UNCHANGED result
         ELSE IF validate_header(blob, SECT_SIZE)
         THEN /\ binary' = SECT_SIZE
              /\ reads' = reads \cup {r0, r1}
              /\ pc' = "parse"
              /\ trace' = Append(trace, "located")
              /\ UNCHANGED result
         ELSE /\ binary' = SECT_SIZE
              /\ reads' = reads \cup {r0, r1}
              /\ Throw("ImageNotFound", "Could not find any ELF header in blob")
              /\ UNCHANGED trace
  /\ UNCHANGED <<fixed, history, args, op, interrupts, region, printed, handoff,
                 expected_total, start_offset, bin_data, bin_len, phys_base, sr_data>>

\* the header class begin branches on (update.cpp:115)
HdrClass(b, base) ==
  IF ByteAt(b, base + EI_CLASS) = ELFCLASS32 THEN ELFCLASS32 ELSE ELFCLASS64

\* Parse with the program header taken at update_area[e_phoff], not binary[e_phoff]
Parse_Absolute(b, base, P) ==
  LET c     == HdrClass(b, base)
      E     == IF c = ELFCLASS32 THEN Elf32_Ehdr ELSE Elf64_Ehdr
      Ph    == IF c = ELFCLASS32 THEN Elf32_Phdr ELSE Elf64_Phdr
      hf(f) == Rd(b, Enc(base + f[1], P), f[2])
      e_shnum     == hf(E.e_shnum)
      e_shentsize == hf(E.e_shentsize)
      e_shoff     == hf(E.e_shoff)
      e_entry     == hf(E.e_entry)
      e_phoff     == hf(E.e_phoff)
      phdr  == ZExt(e_phoff, P)
      pa(f) == Add(phdr, Enc(f[1], P))
      pf(f) == Rd(b, pa(f), f[2])
      p_offset == pf(Ph.p_offset)
      p_filesz == pf(Ph.p_filesz)
      p_paddr  == pf(Ph.p_paddr)
      \* int * int, then + Elf32_Off (unsigned int) or + Elf64_Off (unsigned long)
      prod  == Mul16(e_shnum, e_shentsize)
      sum   == IF c = ELFCLASS32 THEN Add(prod, e_shoff) ELSE Add(SExt(prod, 8), e_shoff)
  IN  [class          |-> c,
       e_shnum        |-> e_shnum,
       e_shentsize    |-> e_shentsize,
       e_shoff        |-> e_shoff,
       e_entry        |-> e_entry,
       p_offset       |-> p_offset,
       p_filesz       |-> p_filesz,
       p_paddr        |-> p_paddr,
       expected_total |-> ZExt(sum, P),
       start_offset   |-> ZExt(e_entry, P),
       bin_data       |-> Add(Enc(base, P), ZExt(p_offset, P)),
       bin_len        |-> ZExt(p_filesz, 4),
       phys_base      |-> ZExt(p_paddr, P),
       reads          |-> {Extent(Enc(base + EI_CLASS, P), 1)}
                          \cup {Extent(Enc(base + f[1], P), f[2]) :
                                  f \in {E.e_shnum, E.e_shentsize, E.e_shoff, E.e_entry, E.e_phoff}}
                          \cup {Extent(pa(f), f[2]) :
                                  f \in {Ph.p_offset, Ph.p_filesz, Ph.p_paddr}}]

\* update.cpp:115-142: what begin extracts from the header at `base` of blob b
\* when pointers and size_t have P bytes
Parse(b, base, P) ==
  LET c     == HdrClass(b, base)
      E     == IF c = ELFCLASS32 THEN Elf32_Ehdr ELSE Elf64_Ehdr
      Ph    == IF c = ELFCLASS32 THEN Elf32_Phdr ELSE Elf64_Phdr
      hf(f) == Rd(b, Enc(base + f[1], P), f[2])
      e_shnum     == hf(E.e_shnum)
      e_shentsize == hf(E.e_shentsize)
      e_shoff     == hf(E.e_shoff)
      e_entry     == hf(E.e_entry)
      e_phoff     == hf(E.e_phoff)
      \* &binary[hdr->e_phoff]
      phdr  == Add(Enc(base, P), ZExt(e_phoff, P))
      pa(f) == Add(phdr, Enc(f[1], P))
      pf(f) == Rd(b, pa(f), f[2])
      p_offset == pf(Ph.p_offset)
      p_filesz == pf(Ph.p_filesz)
      p_paddr  == pf(Ph.p_paddr)
      \* int * int, then + Elf32_Off (unsigned int) or + Elf64_Off (unsigned long)
      prod  == Mul16(e_shnum, e_shentsize)
      sum   == IF c = ELFCLASS32 THEN Add(prod, e_shoff) ELSE Add(SExt(prod, 8), e_shoff)
  IN  [class          |-> c,
       e_shnum        |-> e_shnum,
       e_shentsize    |-> e_shentsize,
       e_shoff        |-> e_shoff,
       e_entry        |-> e_entry,
       p_offset       |-> p_offset,
       p_filesz       |-> p_filesz,
       p_paddr        |-> p_paddr,
       expected_total |-> ZExt(sum, P),
       start_offset   |-> ZExt(e_entry, P),
       bin_data       |-> Add(Enc(base, P), ZExt(p_offset, P)),
       bin_len        |-> ZExt(p_filesz, 4),
       phys_base      |-> ZExt(p_paddr, P),
       reads          |-> {Extent(Enc(base + EI_CLASS, P), 1)}
                          \cup {Extent(Enc(base + f[1], P), f[2]) :
                                  f \in {E.e_shnum, E.e_shentsize, E.e_shoff, E.e_entry, E.e_phoff}}
                          \cup {Extent(pa(f), f[2]) :
                                  f \in {Ph.p_offset, Ph.p_filesz, Ph.p_paddr}}]

ParseHeader ==
  /\ pc = "parse"
  /\ LET d == Parse(blob, binary, PtrBytes(config))
     IN  /\ expected_total' = d.expected_total
         /\ start_offset' = d.start_offset
         /\ bin_data' = d.bin_data
         /\ bin_len' = d.bin_len
         /\ phys_base' = d.phys_base
         /\ reads' = reads \cup d.reads
  /\ pc' = "size"
  /\ UNCHANGED <<fixed, history, args, op, interrupts, region, printed, handoff, result,
                 binary, sr_data, trace>>

\* update.cpp:144
SizeMismatch(sz, expected, P) ==
  LtU(Enc(sz, P), expected) \/ LtU(expected, Enc(ELF_MINIMUM, P))

\* SizeCheck that re-enables interrupts ("sti") before it throws
SizeCheck_Sti ==
  /\ pc = "size"
  /\ IF SizeMismatch(size(blob), expected_total, PtrBytes(config))
     THEN /\ printed' = ZExt(expected_total, 4)
          /\ Throw("ImageSizeMismatch", "ELF file was incomplete")
          /\ interrupts' = TRUE
          /\ UNCHANGED trace
     ELSE /\ pc' = "store_create"
          /\ trace' = Append(trace, "size_checked")
          /\ UNCHANGED <<printed, result, interrupts>>
  /\ UNCHANGED <<fixed, history, args, locals, op, region, reads, handoff>>

\* update.cpp:144-153
SizeCheck ==
  /\ pc = "size"
  /\ IF SizeMismatch(size(blob), expected_total, PtrBytes(config))
     THEN /\ printed' = ZExt(expected_total, 4)
          /\ Throw("ImageSizeMismatch", "ELF file was incomplete")
          /\ UNCHANGED trace
     ELSE /\ pc' = "store_create"
          /\ trace' = Append(trace, "size_checked")
          /\ UNCHANGED <<printed, result>>
  /\ UNCHANGED <<fixed, history, args, locals, op, interrupts, region, reads, handoff>>

\* LiveUpdate::store (update.cpp:213-216): straight into update_store_data
Store(cb) ==
  /\ pc = "idle"
  /\ op' = "store"
  /\ storage_callback' = cb
  /\ pc' = "store_create"
  /\ region_at_call' = region
  /\ UNCHANGED <<fixed, previous, blob, locals, interrupts, region, trace, reads, printed,
                 handoff, result>>

\* update_store_data that reopens a valid log found at the location instead of
\* constructing a new header (update.cpp:236)
StoreCreate_Keeps ==
  /\ pc = "store_create"
  /\ region' = IF validate(region) THEN region ELSE storage_header
  /\ trace' = Append(trace, "create")
  /\ pc' = "store_callback"
  /\ UNCHANGED <<fixed, history, args, locals, op, interrupts, reads, printed, handoff, result>>

\* update_store_data (update.cpp:235-237): the header is constructed in place
StoreCreate ==
  /\ pc = "store_create"
  /\ region' = storage_header
  /\ trace' = Append(trace, "create")
  /\ pc' = "store_callback"
  /\ UNCHANGED <<fixed, history, args, locals, op, interrupts, reads, printed, handoff, result>>

\* update_store_data (update.cpp:239-244): the callback, if any, appends its entries
StoreCallback ==
  /\ pc = "store_callback"
  /\ IF ~storage_callback.null
     THEN /\ region' = RunCallback(region, storage_callback.n)
          /\ trace' = trace \o [i \in 1..storage_callback.n |-> "append"] \o <<"callback">>
     ELSE UNCHANGED <<region, trace>>
  /\ pc' = "store_finalize"
  /\ UNCHANGED <<fixed, history, args, locals, op, interrupts, reads, printed, handoff, result>>

\* update_store_data without the call of finalize() (update.cpp:247)
StoreFinalize_Skipped ==
  /\ pc = "store_finalize"
  /\ trace' = Append(trace, "finalize")
  /\ pc' = "store_length"
  /\ UNCHANGED <<fixed, history, args, locals, op, interrupts, region, reads, printed,
                 handoff, result>>

\* update_store_data (update.cpp:246-247)
StoreFinalize ==
  /\ pc = "store_finalize"
  /\ region' = finalize(region)
  /\ trace' = Append(trace, "finalize")
  /\ pc' = "store_length"
  /\ UNCHANGED <<fixed, history, args, locals, op, interrupts, reads, printed, handoff, result>>

\* stored_data_length with the sanity check performed whatever the toggle says
stored_data_length_Always(mem, checks) ==
  IF ~validate(mem)
  THEN [kind |-> "IntegrityCheckFailed",
        what |-> "Failed sanity check on LiveUpdate storage area", value |-> 0]
  ELSE [kind |-> "returned", what |-> "", value |-> total_bytes(mem)]

\* LiveUpdate::stored_data_length (update.cpp:218-231) on the memory at the location
stored_data_length(mem, checks) ==
  IF checks /\ ~validate(mem)
  THEN [kind |-> "IntegrityCheckFailed",
        what |-> "Failed sanity check on LiveUpdate storage area", value |-> 0]
  ELSE [kind |-> "returned", what |-> "", value |-> total_bytes(mem)]

\* update_store_data (update.cpp:249-250): begin discards the length, store returns it
StoreLength ==
  /\ pc = "store_length"
  /\ LET r == stored_data_length(region, LIVEUPDATE_PERFORM_SANITY_CHECKS)
     IN  IF r.kind # "returned" THEN /\ pc' = "done"
                                     /\ result' = r
         ELSE IF op = "store"   THEN /\ pc' = "done"
                                     /\ result' = r
         ELSE /\ pc' = "flush"
              /\ UNCHANGED result
  /\ trace' = IF LIVEUPDATE_PERFORM_SANITY_CHECKS THEN Append(trace, "validate") ELSE trace
  /\ UNCHANGED <<fixed, history, args, locals, op, interrupts, region, reads, printed, handoff>>

\* hw::Devices::flush_all() (update.cpp:162-163)
FlushAll ==
  /\ pc = "flush"
  /\ trace' = Append(trace, "flush")
  /\ pc' = "soft_reset"
  /\ UNCHANGED <<fixed, history, args, locals, op, interrupts, region, reads, printed, handoff, result>>

\* SoftReset with the solo5 branch of update.cpp:169-175 taken in every build
SoftReset_Never ==
  /\ pc = "soft_reset"
  /\ sr_data' = "nullptr"
  /\ pc' = "check_phdr"
  /\ UNCHANGED <<fixed, history, args, op, interrupts, region, reads, printed, handoff, result,
                 binary, expected_total, start_offset, bin_data, bin_len, phys_base, trace>>

\* update.cpp:168-175: no snapshot is taken in the solo5 build
SoftReset ==
  /\ pc = "soft_reset"
  /\ IF config.platform = "solo5"
     THEN /\ sr_data' = "nullptr"
          /\ UNCHANGED trace
     ELSE /\ sr_data' = "soft_reset_data"
          /\ trace' = Append(trace, "snapshot")
  /\ pc' = "check_phdr"
  /\ UNCHANGED <<fixed, history, args, op, interrupts, region, reads, printed, handoff, result,
                 binary, expected_total, start_offset, bin_data, bin_len, phys_base>>

\* update.cpp:178-179; bin_data is an offset from blob.data()
Malformed(data, base, len, P) ==
  \/ IsZero(Add(Enc(blob_data, P), data))
  \/ IsZero(base)
  \/ LeS(len, Enc(64, 4))

\* update.cpp:177-181
CheckPhdr ==
  /\ pc = "check_phdr"
  /\ IF Malformed(bin_data, phys_base, bin_len, PtrBytes(config))
     THEN /\ Throw("MalformedSegment", "ELF program header malformed")
          /\ UNCHANGED trace
     ELSE /\ pc' = "handoff"
          /\ trace' = Append(trace, "phdr_checked")
          /\ UNCHANGED result
  /\ UNCHANGED <<fixed, history, args, locals, op, interrupts, region, reads, printed, handoff>>

\* the arguments of the handoff primitive (update.cpp:189-206)
HandoffArgs(c, b, data, len, base, entry, sr) ==
  IF c.platform = "solo5"
  THEN [kind |-> "solo5_exec", blob |-> b.data, size |-> size(b)]
  ELSE [kind |-> IF c.arch = "i686" THEN "hotswap" ELSE "hotswap64",
        bin_data |-> data, bin_len |-> len, phys_base |-> base,
        start_offset |-> entry, sr_data |-> sr]

\* memcpy(HOTSWAP_AREA, &hotswap, ...) (update.cpp:195, 200) writes into the log at loc
CopyOverlaps(loc, mem) ==
  /\ loc < HOTSWAP_AREA + hotswap_size
  /\ loc + total_bytes(mem) > HOTSWAP_AREA

\* update.cpp:189-206: the hotswap routine is copied to HOTSWAP_AREA (hotswap builds)
\* and the handoff primitive is called
Handoff ==
  /\ pc = "handoff"
  /\ handoff' = HandoffArgs(config, blob, bin_data, bin_len, phys_base, start_offset, sr_data)
  /\ IF config.platform = "solo5"
     THEN /\ trace' = Append(trace, "handoff")
          /\ UNCHANGED region
     ELSE /\ trace' = trace \o <<"memcpy", "handoff">>
          /\ region' = IF CopyOverlaps(location, region) THEN HotswapCode ELSE region
  /\ pc' = "in_handoff"
  /\ UNCHANGED <<fixed, history, args, locals, op, interrupts, reads, printed, result>>

\* what begin does when the handoff primitive returns (update.cpp:191, 206-207)
AfterHandoff(c) ==
  IF c.platform = "solo5"
  THEN [kind |-> "Fatal", what |-> "solo5_exec returned", value |-> 0]
  ELSE [kind |-> "returned", what |-> "", value |-> 0]

\* the handoff primitive returns to begin
HandoffReturns ==
  /\ pc = "in_handoff"
  /\ result' = AfterHandoff(config)
  /\ pc' = "done"
  /\ UNCHANGED <<fixed, history, args, locals, op, interrupts, region, trace, reads, printed, handoff>>

\* the idle state of the control thread: no call in progress
Reset ==
  /\ pc' = "idle"
  /\ op' = "none"
  /\ blob' = NoBlob
  /\ storage_callback' = nullptr_func
  /\ binary' = 0
  /\ expected_total' = NoNum
  /\ start_offset' = NoNum
  /\ bin_data' = NoNum
  /\ bin_len' = NoNum
  /\ phys_base' = NoNum
  /\ sr_data' = "nullptr"
  /\ trace' = <<>>
  /\ reads' = {}
  /\ printed' = NoNum
  /\ handoff' = NoHandoff
  /\ result' = NoResult
  /\ previous' = NoPrevious
  /\ region_at_call' = Garbage

\* the handoff primitive does not return: the new image runs, interrupts still masked,
\* the storage area as the old image left it
HandoffJumps ==
  /\ pc = "in_handoff"
  /\ Reset
  /\ UNCHANGED <<fixed, interrupts, region>>

\* the caller of begin/store/stored_data_length goes on after the call
Return ==
  /\ pc = "done"
  /\ Reset
  /\ UNCHANGED <<fixed, interrupts, region>>

\* stored_data_length that finalizes the log it is asked about
StoredDataLength_Finalizes ==
  /\ \/ /\ pc = "idle"
        /\ previous' = NoPrevious
        /\ region_at_call' = region
     \/ /\ pc = "done"
        /\ op \in {"store", "stored_data_length"}
        /\ previous' = [op |-> op, result |-> result, region |-> region]
        /\ region_at_call' = IF op = "store" THEN region ELSE region_at_call
  /\ op' = "stored_data_length"
  /\ region' = finalize(region)
  /\ result' = stored_data_length(region', LIVEUPDATE_PERFORM_SANITY_CHECKS)
  /\ trace' = IF LIVEUPDATE_PERFORM_SANITY_CHECKS THEN <<"validate">> ELSE <<>>
  /\ pc' = "done"
  /\ UNCHANGED <<fixed, args, locals, interrupts, reads, printed, handoff>>

\* LiveUpdate::stored_data_length called by the application (update.cpp:218-231),
\* from the idle state or right after a store or stored_data_length call returned
StoredDataLength ==
  /\ \/ /\ pc = "idle"
        /\ previous' = NoPrevious
        /\ region_at_call' = region
     \/ /\ pc = "done"
        /\ op \in {"store", "stored_data_length"}
        /\ previous' = [op |-> op, result |-> result, region |-> region]
        /\ region_at_call' = IF op = "store" THEN region ELSE region_at_call
  /\ op' = "stored_data_length"
  /\ result' = stored_data_length(region, LIVEUPDATE_PERFORM_SANITY_CHECKS)
  /\ trace' = IF LIVEUPDATE_PERFORM_SANITY_CHECKS THEN <<"validate">> ELSE <<>>
  /\ pc' = "done"
  /\ UNCHANGED <<fixed, args, locals, interrupts, region, reads, printed, handoff>>

\* LiveUpdate::restore_environment (update.cpp:208-212): "sti"
RestoreEnvironment ==
  /\ pc = "idle"
  /\ interrupts' = TRUE
  /\ UNCHANGED <<fixed, history, args, locals, pc, op, region, trace, reads, printed, handoff, result>>

Next ==
  \/ \E k \in BlobIds, cb \in Callbacks : Begin(k, cb)
  \/ ValidateRegion
  \/ SearchHeader
  \/ ParseHeader
  \/ SizeCheck
  \/ \E cb \in Callbacks : Store(cb)
  \/ StoreCreate
  \/ StoreCallback
  \/ StoreFinalize
  \/ StoreLength
  \/ FlushAll
  \/ SoftReset
  \/ CheckPhdr
  \/ Handoff
  \/ HandoffReturns
  \/ HandoffJumps
  \/ Return
  \/ StoredDataLength
  \/ RestoreEnvironment

Spec == Init /\ [][Next]_vars

-----------------------------------------------------------------------------
(* The storage interface alone, with the application writing the global   *)
(* LIVEUPDATE_PERFORM_SANITY_CHECKS (update.cpp:39) and with memory       *)
(* corruption of a finalized log between calls.                            *)

\* the application assigns the global toggle
SetSanityChecks(v) ==
  /\ pc = "idle"
  /\ LIVEUPDATE_PERFORM_SANITY_CHECKS # v
  /\ LIVEUPDATE_PERFORM_SANITY_CHECKS' = v
  /\ UNCHANGED <<config, location, history, args, locals, pc, op, interrupts, region,
                 trace, reads, printed, handoff, result>>

\* a stray write damages the trailer of the finalized log at the location
Corrupt ==
  /\ pc = "idle"
  /\ validate(region)
  /\ region' = [region EXCEPT !.trailer = @ + 1]
  /\ UNCHANGED <<fixed, history, args, locals, pc, op, interrupts, trace, reads,
                 printed, handoff, result>>

NextStore ==
  \/ \E cb \in Callbacks : Store(cb)
  \/ StoreCreate
  \/ StoreCallback
  \/ StoreFinalize
  \/ StoreLength
  \/ StoredDataLength
  \/ Return
  \/ \E v \in BOOLEAN : SetSanityChecks(v)
  \/ Corrupt

SpecStore == Init /\ [][NextStore]_vars

-----------------------------------------------------------------------------
(* begin's image location as one function of the blob (update.cpp:89-181): *)
(* header search, extraction, size check and program header check.         *)

Locate(b, P) ==
  LET base == IF validate_header(b, 0) THEN 0 ELSE SECT_SIZE
      d    == Parse(b, base, P)
  IN  IF ~validate_header(b, base) THEN [status |-> "ImageNotFound"]
      ELSE IF SizeMismatch(size(b), d.expected_total, P) THEN [status |-> "ImageSizeMismatch"]
      ELSE IF Malformed(d.bin_data, d.phys_base, d.bin_len, P) THEN [status |-> "MalformedSegment"]
      ELSE [status |-> "ok", binary |-> base, start_offset |-> d.start_offset,
            bin_data |-> d.bin_data, bin_len |-> d.bin_len, phys_base |-> d.phys_base]

-----------------------------------------------------------------------------
(* Properties.                                                             *)

Did(e) == \E i \in 1..Len(trace) : trace[i] = e

IsError(r) == r.kind \notin {"none", "returned"}

BeginFailed == op = "begin" /\ pc = "done" /\ IsError(result)

\* the locations the region invariant of the data model excludes
Excluded(l) ==
  \/ l < 512
  \/ l >= _ELF_START_ /\ l < _end
  \/ l >= heap_begin /\ l < heap_end
  \/ l >= heap_max - 65536

\* C1: at a location below 0x200, inside the kernel image, inside the heap or
\* at or above the top of physical memory - 64 KiB, begin (any blob, any
\* callback) fails with InvalidRegion, and until then has read nothing of the
\* blob, created no log, flushed no device and not invoked the handoff.
C1_InvalidRegion ==
  (op = "begin" /\ Excluded(location)) =>
     /\ pc = "validate" \/ (pc = "done" /\ result.kind = "InvalidRegion")
     /\ reads = {}
     /\ trace = <<"cli">>
     /\ handoff = NoHandoff

C1_Witness ==
  /\ op = "begin" /\ pc = "done" /\ result.kind = "InvalidRegion"
  /\ location = heap_max - 65536
  /\ size(blob) > 0 /\ ~storage_callback.null

\* the steps of begin that have to precede the handoff, in the order of the
\* orchestrator's sequence; snapshot tells whether the snapshot capture is one of them
Sequenced(snapshot) ==
  <<"cli", "validated", "located", "size_checked", "create">>
  \o (IF storage_callback.null THEN <<>> ELSE <<"callback">>)
  \o <<"finalize", "flush">>
  \o (IF snapshot THEN <<"snapshot">> ELSE <<>>)
  \o <<"handoff">>

IsSequenced(e) ==
  e \in {"cli", "validated", "located", "size_checked", "create", "callback",
         "finalize", "flush", "snapshot", "handoff"}

\* C2 as stated: whenever the handoff is invoked, interrupts are masked and
\* masking, region validation, image location and size check, log creation,
\* callback return, finalize, device flush and snapshot capture have all
\* happened, once each and in this order.
C2_Original ==
  Did("handoff") =>
     /\ ~interrupts
     /\ SelectSeq(trace, IsSequenced) = Sequenced(TRUE)

\* C2 amended: the same, the snapshot capture being one of the steps in the
\* hotswap builds only (the solo5 build takes no snapshot).
C2_HandoffOrder ==
  Did("handoff") =>
     /\ ~interrupts
     /\ SelectSeq(trace, IsSequenced) = Sequenced(config.platform # "solo5")

C2_Witness ==
  /\ pc = "in_handoff" /\ config.platform = "hotswap" /\ ~storage_callback.null
  /\ Did("snapshot")

\* C3 as stated: an execution of begin that has masked interrupts does not end
\* by signalling an error.
C3_Original == ~(BeginFailed /\ Did("cli") /\ ~interrupts)

\* C3 amended: every error of begin is signalled with interrupts already
\* masked (masking is begin's first step, all validation follows it); it is
\* once the program header check has passed that no error path is left before
\* the handoff call.
C3_NoErrorAfterChecks ==
  /\ BeginFailed => (trace # <<>> /\ trace[1] = "cli" /\ ~interrupts)
  /\ Did("phdr_checked") =>
        /\ pc \in {"handoff", "in_handoff", "done"}
        /\ pc = "done" => Did("handoff")

C3_Witness ==
  BeginFailed /\ result.kind = "MalformedSegment" /\ ~interrupts

\* C4: when begin fails with MalformedSegment, no storage log has been
\* written, the callback has not run, no device has been flushed and no
\* snapshot has been taken.
C4_Original ==
  (BeginFailed /\ result.kind = "MalformedSegment") =>
     ~(Did("create") \/ Did("callback") \/ Did("flush") \/ Did("snapshot"))

\* an extent lies inside the blob
InBlob(r, b) == Fits(r.off) /\ Val(r.off) + r.n <= size(b)

\* C5: every byte begin reads through the blob's pointer lies inside the blob.
C5_Original == \A r \in reads : InBlob(r, blob)

\* C6: begin never returns normally to its caller.
C6_Original == ~(op = "begin" /\ pc = "done" /\ result.kind = "returned")

\* C7: no storage header or entry is written at a location that is below
\* 0x200, inside the kernel image, inside the heap or within 64 KiB of the
\* top of physical memory.
C7_Original == Did("create") => ~Excluded(location)

\* C8: begin never re-enables interrupts, so that when it signals an error
\* they are masked; the one step that re-enables them is restore_environment.
C8_InterruptsStayMasked ==
  [][ /\ op' = "begin" => ~interrupts'
      /\ (~interrupts /\ interrupts') => RestoreEnvironment ]_vars

C8_Witness == BeginFailed /\ result.kind = "ImageSizeMismatch" /\ ~interrupts

\* the blob Z + I: 512 zero bytes before the bytes of b
Prepend512(b) == [data |-> Zeros(SECT_SIZE) \o b.data, tail |-> b.tail]

\* C9: when begin reaches the handoff on a blob whose header is at byte 0, it
\* also locates the image in that blob behind 512 zero bytes, at offset 512,
\* with the same entry, segment length and physical base, and with a segment
\* pointer that designates the same bytes.
C9_ShiftInvariant ==
  (pc = "in_handoff" /\ binary = 0) =>
     LET P == PtrBytes(config)
         z == Prepend512(blob)
         d == Locate(z, P)
     IN  /\ d.status = "ok"
         /\ d.binary = SECT_SIZE
         /\ d.start_offset = start_offset
         /\ d.bin_len = bin_len
         /\ d.phys_base = phys_base
         /\ d.bin_data = Add(bin_data, Enc(SECT_SIZE, P))
         /\ Fits(bin_len) /\ Fits(bin_data) /\ Fits(d.bin_data)
         /\ \A i \in 0..(Val(bin_len) - 1) :
               ByteAt(z, Val(d.bin_data) + i) = ByteAt(blob, Val(bin_data) + i)

C9_Witness ==
  /\ pc = "in_handoff" /\ binary = 0 /\ size(blob) = 249
  /\ Locate(Prepend512(blob), PtrBytes(config)).status = "ok"

\* section_count * section_entry_size + section_offset as a number of 9 bytes:
\* no wrap-around
DeclaredSize(b, base, P) ==
  LET d == Parse(b, base, P)
  IN  Add(ZExt(Mul16(d.e_shnum, d.e_shentsize), 9), ZExt(d.e_shoff, 9))

\* C10: once a header is found, a blob shorter than the size its header
\* declares, or a declared size below 164, makes begin fail with
\* ImageSizeMismatch, the expected value reported being the declared size.
C10_Original ==
  LET P == PtrBytes(config)
      declared == DeclaredSize(blob, binary, P)
  IN  (op = "begin" /\ Did("located") /\ pc \notin {"parse", "size"}
         /\ (LtU(Enc(size(blob), 9), declared) \/ LtU(declared, Enc(ELF_MINIMUM, 9))))
      => /\ pc = "done" /\ result.kind = "ImageSizeMismatch"
         /\ ZExt(printed, 9) = declared

-----------------------------------------------------------------------------
\* a stored_data_length call has just returned or thrown
LengthAsked == op = "stored_data_length" /\ pc = "done"

\* C11: with LIVEUPDATE_PERFORM_SANITY_CHECKS off, stored_data_length never throws
\* IntegrityCheckFailed and never calls validate(), even on a log with a damaged
\* trailer; with it on, the call validates, throws on every region where validate()
\* is false and returns total_bytes() only where validate() is true.
C11_SanityToggle ==
  LengthAsked =>
    IF LIVEUPDATE_PERFORM_SANITY_CHECKS
    THEN /\ Did("validate")
         /\ ~validate(region) => result.kind = "IntegrityCheckFailed"
         /\ validate(region) => /\ result.kind = "returned"
                                /\ result.value = total_bytes(region)
    ELSE /\ ~Did("validate")
         /\ result.kind # "IntegrityCheckFailed"

\* the toggle is off and the length of a log with a damaged trailer was returned
C11_Witness ==
  /\ LengthAsked
  /\ ~LIVEUPDATE_PERFORM_SANITY_CHECKS
  /\ region.marker /\ region.trailer # region.length
  /\ result.kind = "returned"

\* C12: stored_data_length is read-only and idempotent: the memory at the location
\* after the call is the memory before the first call, and a call that directly
\* follows another returns the same value or fails in the same way.
C12_Idempotent ==
  LengthAsked =>
    /\ region = region_at_call
    /\ previous.op = "stored_data_length" => /\ result = previous.result
                                             /\ region = previous.region

\* a second consecutive call returned the length of a finalized log with an entry
C12_Witness ==
  /\ LengthAsked
  /\ previous.op = "stored_data_length"
  /\ validate(region) /\ region.entries # <<>>
  /\ result.kind = "returned"

-----------------------------------------------------------------------------
\* the bytes [a, a + len) and [lo, hi) have no byte in common
Disjoint(a, len, lo, hi) == a + len <= lo \/ a >= hi

\* C14: the bytes of the log begin wrote at an accepted location, [location,
\* location + total_bytes), never overlap the kernel image [_ELF_START_, _end) or
\* the heap [heap_begin, heap_end) and end at or below the top of memory.
C14_Original ==
  (op = "begin" /\ pc = "flush") =>
    /\ Disjoint(location, total_bytes(region), _ELF_START_, _end)
    /\ Disjoint(location, total_bytes(region), heap_begin, heap_end)
    /\ location + total_bytes(region) <= heap_max

-----------------------------------------------------------------------------
\* every entry was appended after the header was created and before finalize()
AppendsInOrder(t) ==
  \A i \in 1..Len(t) :
    t[i] = "append" => /\ \E j \in 1..(i - 1) : t[j] = "create"
                       /\ \A j \in 1..i : t[j] # "finalize"

\* C15: within one begin or store call every entry is appended after the header
\* was created and before finalize(), and from finalize() to the handoff (or to the
\* return of store) no step of the call writes to the memory at the location.
C15_Original ==
  [][ /\ AppendsInOrder(trace')
      /\ (Did("finalize") /\ pc # "in_handoff") => region' = region ]_vars

-----------------------------------------------------------------------------
\* update_store_data has written its log in the call in progress, and the call has
\* not gone on to copy the hotswap routine
LogWritten == op \in {"begin", "store"} /\ Did("finalize") /\ ~Did("memcpy")

-----------------------------------------------------------------------------
\* C17: in the hotswap builds the handoff primitive receives the segment source at
\* header base + p_offset of the first program header, the length p_filesz, the
\* physical base p_paddr, the entry point e_entry and the snapshot pointer; the
\* length is the declared 32- or 64-bit file size, not truncated, sign unchanged.
C17_Original ==
  (pc = "in_handoff" /\ config.platform # "solo5") =>
    LET d == Parse(blob, binary, PtrBytes(config))
    IN  /\ ZExt(handoff.bin_data, 9) = Add(Enc(binary, 9), ZExt(d.p_offset, 9))
        /\ SExt(handoff.bin_len, 9) = ZExt(d.p_filesz, 9)
        /\ ZExt(handoff.phys_base, 9) = ZExt(d.p_paddr, 9)
        /\ ZExt(handoff.start_offset, 9) = ZExt(d.e_entry, 9)
        /\ handoff.sr_data = sr_data /\ sr_data # "nullptr"

-----------------------------------------------------------------------------
\* the steps of begin that act on the region, the devices or the new image
Effects == {"create", "append", "callback", "finalize", "validate", "flush", "snapshot",
            "memcpy", "handoff"}

\* C18: a begin call that fails with InvalidRegion, ImageNotFound or
\* ImageSizeMismatch has changed nothing but the interrupt mask: the memory at the
\* location is what it was when begin was called, the callback was not invoked,
\* no device was flushed, no snapshot taken and the handoff not invoked.
C18_FailureFrame ==
  (BeginFailed /\ result.kind \in {"InvalidRegion", "ImageNotFound", "ImageSizeMismatch"}) =>
    /\ region = region_at_call
    /\ \A i \in 1..Len(trace) : trace[i] \notin Effects
    /\ sr_data = "nullptr"
    /\ handoff = NoHandoff

\* begin with a callback failed on the image while a log with an entry was stored
C18_Witness ==
  /\ BeginFailed /\ result.kind = "ImageSizeMismatch"
  /\ ~storage_callback.null
  /\ validate(region) /\ region.entries # <<>>

-----------------------------------------------------------------------------
\* C19: whenever begin invokes the handoff, the segment handed over lies inside
\* the blob: header offset + p_offset + p_filesz <= blob length, and with the
\* header at offset 512 also 512 + expected_total <= blob length.
C19_Original ==
  pc = "in_handoff" =>
    LET d == Parse(blob, binary, PtrBytes(config))
        segment_end == Add(Add(Enc(binary, 9), ZExt(d.p_offset, 9)), ZExt(d.p_filesz, 9))
        image_end   == Add(Enc(binary, 9), ZExt(expected_total, 9))
    IN  /\ ~LtU(Enc(size(blob), 9), segment_end)
        /\ binary = SECT_SIZE => ~LtU(Enc(size(blob), 9), image_end)

====
